---- MODULE Spec2Model ----
(***************************************************************************)
(* distcache: the cache router (CacheServer, src/src/server.py) and the    *)
(* heartbeat monitor (HealthServer, src/src/health_server.py).             *)
(*                                                                         *)
(* Backends are named by the order in which the router accepts them: the   *)
(* socket returned by the k-th accept is socket k-1.  The health server    *)
(* names a probing session by the backend it probes.                       *)
(***************************************************************************)
EXTENDS Integers, Sequences, FiniteSets

\* ------------------------------------------------------------------ bounds
MaxNodes == 2      \* backends that ever connect
MaxGets == 1       \* cap on query_count

\* ------------------------------------------------------- program constants
num_virtual_replicas == 5   \* CacheServer.__init__ default
ACK_HEADER == 3             \* HealthServer.ACK_HEADER
DEAD_THRESH == 3            \* config.HEARTBEAT_THRESH ("three heart beat requests")

Sockets == 0 .. (MaxNodes - 1)
Keys == {"x", "y"}
Ints == {0, 1}
Diffs == {-1, 1}
NoSock == -1
NoKey == "-"

\* ------------------------------------------------------------ Python values
\* Replies and stored values are Python objects.  bool is a subclass of int,
\* so True == 1 and False == 0 compare equal.
PyInt(n) == [t |-> "int", v |-> n]
PyTrue == [t |-> "bool", v |-> 1]
PyFalse == [t |-> "bool", v |-> 0]
PyRaise == [t |-> "raise", v |-> 0]   \* the call ended with an exception
Absent == [t |-> "none", v |-> 0]     \* no entry for the key on a backend
PyEq(a, b) == a.v = b.v
PyTruthy(a) == a.v # 0
Values == {PyInt(n) : n \in Ints}

VARIABLES
    ring,               \* CacheServer.ring: the positions of the hash ring
    clients,            \* CacheServer.clients: client_id -> socket
    cache_hits,         \* CacheServer.cache_hits
    query_count,        \* CacheServer.query_count
    store,              \* the key/value memory of each backend
    alive,              \* whether each backend process still runs
    last,               \* the most recent router call and its outcome (the key
                        \* of a set or get, the value of a set, and for a get
                        \* whether it directly follows a set of its key)
    evicted,            \* sockets for which _delist_unavailable_server returned
    nPresent,           \* get calls that returned a present value
    nGets,              \* get calls that completed
    health_clients,     \* HealthServer.clients
    unhealthy_clients,  \* HealthServer.unhealthy_clients
    pc,                 \* each probing task: "idle", "probing" or "dead"
    no_beat_count,      \* probe_health's local no_beat_count, per task
    report,             \* report_health in progress: its position and message
    hlast,              \* the most recent health-server step and its outcome
    calls,              \* each caller thread's routing call: where it is in
                        \* send_receive, and on return whose command the reply
                        \* it got answers and whether another exchange was
                        \* open on the connection during its own
    wire                \* per connection, the replies sent and not yet read

routerVars == <<ring, clients, cache_hits, query_count, store, last, evicted,
                nPresent, nGets>>
healthVars == <<health_clients, unhealthy_clients, pc, no_beat_count, report, hlast>>
concVars == <<calls, wire>>
vars == <<routerVars, healthVars, alive, concVars>>

\* ------------------------------------------------- consistent hashing ring
\* A position is <<hash value, node, replica index>>; positions are ordered
\* by hash value, ties broken by node.
NodeHash(node, i) == (13 * node + 6 * i + 1) % 32
KeyHash(key) == IF key = "x" THEN 9 ELSE 14

add_node(r, node, replicas) ==
    r \cup {<<NodeHash(node, i), node, i>> : i \in 0 .. (replicas - 1)}

remove_node(r, node) == {p \in r : p[2] # node}

Before(p, q) == p[1] < q[1] \/ (p[1] = q[1] /\ p[2] <= q[2])
First(ps) == CHOOSE p \in ps : \A q \in ps : Before(p, q)

get_node(r, key) ==
    LET at == {p \in r : p[1] >= KeyHash(key)}
    IN  IF at # {} THEN First(at)[2] ELSE First(r)[2]

RingNodes(r) == {p[2] : p \in r}

\* ------------------------------------------------------------- the backend
\* What a backend does with a command, and what it answers.
BackendStore(mem, msg) ==
    CASE msg.cmd = "set" -> [mem EXCEPT ![msg.key] = PyInt(msg.arg)]
      [] msg.cmd = "del" -> [mem EXCEPT ![msg.key] = Absent]
      [] msg.cmd = "add" ->
            IF mem[msg.key] = Absent THEN mem
            ELSE [mem EXCEPT ![msg.key] = PyInt(mem[msg.key].v + msg.arg)]
      [] OTHER -> mem

BackendReply(mem, msg) ==
    CASE msg.cmd = "get" -> IF mem[msg.key] = Absent THEN PyFalse ELSE mem[msg.key]
      [] msg.cmd = "set" -> PyTrue
      [] OTHER -> IF mem[msg.key] = Absent THEN PyFalse ELSE PyTrue

\* utils.send_receive_ack: "The response is false if the server is unable to
\* send any ACK".
send_receive_ack(msg, sock) ==
    IF alive[sock] THEN BackendReply(store[sock], msg) ELSE PyFalse

StoreAfter(msg, sock) ==
    IF alive[sock] THEN [store EXCEPT ![sock] = BackendStore(store[sock], msg)]
    ELSE store

\* ---------------------------------------------------------------- router
send_receive(message, client_socket) == send_receive_ack(message, client_socket)

_get_server_for_key(key) == get_node(ring, key)

Msg(cmd, key, arg) == [cmd |-> cmd, key |-> key, arg |-> arg]
Event(op, key, arg, sock, resp) ==
    [op |-> op, key |-> key, arg |-> arg, sock |-> sock, resp |-> resp, rw |-> FALSE]

\* ring.get_node on an empty ring raises; the exception leaves the caller.
EmptyRing(op, key, arg) ==
    /\ ring = {}
    /\ last' = Event(op, NoKey, 0, NoSock, PyRaise)
    /\ UNCHANGED <<ring, clients, cache_hits, query_count, store, evicted,
                   nPresent, nGets>>

len(d) == Cardinality(DOMAIN d)

\* spawn without the break: one call registers every backend that connects.
spawn_accepts_all ==
    /\ len(clients) < MaxNodes
    /\ clients' = [i \in Sockets |-> i]
    /\ ring' = ring \cup UNION {add_node({}, client_socket, num_virtual_replicas) :
                                   client_socket \in Sockets \ DOMAIN clients}
    /\ last' = Event("spawn", NoKey, MaxNodes - 1, MaxNodes - 1, PyTrue)
    /\ UNCHANGED <<cache_hits, query_count, store, evicted, nPresent, nGets>>

\* spawn, taking the number of nodes in the ring as the next id.
spawn_id_from_ring ==
    /\ len(clients) < MaxNodes
    /\ LET client_socket == len(clients)
           client_id == Cardinality(RingNodes(ring))
       IN  /\ clients' = [i \in DOMAIN clients \cup {client_id} |->
                            IF i = client_id THEN client_socket ELSE clients[i]]
           /\ ring' = add_node(ring, client_socket, num_virtual_replicas)
           /\ last' = Event("spawn", NoKey, client_id, client_socket, PyTrue)
    /\ UNCHANGED <<cache_hits, query_count, store, evicted, nPresent, nGets>>

spawn ==
    /\ len(clients) < MaxNodes
    /\ LET client_socket == len(clients)   \* the socket accept() returns
           client_id == len(clients)
       IN  /\ clients' = [i \in DOMAIN clients \cup {client_id} |->
                            IF i = client_id THEN client_socket ELSE clients[i]]
           /\ ring' = add_node(ring, client_socket, num_virtual_replicas)
           /\ last' = Event("spawn", NoKey, client_id, client_socket, PyTrue)
    /\ UNCHANGED <<cache_hits, query_count, store, evicted, nPresent, nGets>>

\* Routed, delisting the node when the exchange with it failed.
Routed_delists_on_failure(op, key, arg, client_socket, result) ==
    /\ store' = StoreAfter(Msg(op, key, arg), client_socket)
    /\ last' = IF op = "set" THEN Event(op, key, arg, client_socket, result)
                ELSE Event(op, NoKey, 0, client_socket, result)
    /\ ring' = IF alive[client_socket] THEN ring ELSE remove_node(ring, client_socket)
    /\ UNCHANGED <<clients, cache_hits, query_count, evicted, nPresent, nGets>>

\* The part of set, delete and add that follows the lookup: one exchange with
\* the owning node, and the value returned to the caller.
Routed(op, key, arg, client_socket, result) ==
    /\ store' = StoreAfter(Msg(op, key, arg), client_socket)
    /\ last' = IF op = "set" THEN Event(op, key, arg, client_socket, result)
                ELSE Event(op, NoKey, 0, client_socket, result)
    /\ UNCHANGED <<ring, clients, cache_hits, query_count, evicted, nPresent, nGets>>

\* set, sending to the first registered backend instead of the key's owner.
set_first_client(key, value) ==
    \/ EmptyRing("set", key, value)
    \/ /\ ring # {}
       /\ \E client_socket \in {clients[0]} :
          LET response == send_receive(Msg("set", key, value), client_socket)
          IN  Routed("set", key, value, client_socket,
                     IF PyTruthy(response) THEN PyTrue ELSE PyFalse)

set(key, value) ==
    \/ EmptyRing("set", key, value)
    \/ /\ ring # {}
       /\ \E client_socket \in {_get_server_for_key(key)} :
          LET response == send_receive(Msg("set", key, value), client_socket)
          IN  Routed("set", key, value, client_socket,
                     IF PyTruthy(response) THEN PyTrue ELSE PyFalse)

\* Whether the reply to a get carries a value the backend holds.
Present(key, client_socket) ==
    alive[client_socket] /\ store[client_socket][key] # Absent

\* get, counting the query before the lookup.
get_counts_before_lookup(key) ==
    \/ /\ ring = {}
       /\ query_count < MaxGets
       /\ query_count' = query_count + 1
       /\ last' = Event("get", NoKey, 0, NoSock, PyRaise)
       /\ UNCHANGED <<ring, clients, cache_hits, store, evicted, nPresent, nGets>>
    \/ /\ ring # {}
       /\ query_count < MaxGets
       /\ \E client_socket \in {_get_server_for_key(key)} :
          LET response == send_receive(Msg("get", key, 0), client_socket)
          IN  /\ query_count' = query_count + 1
              /\ cache_hits' = cache_hits + (IF ~PyEq(response, PyFalse) THEN 1 ELSE 0)
              /\ last' = [Event("get", key, 0, client_socket, response)
                            EXCEPT !.rw = (last.op = "set" /\ last.key = key)]
              /\ nGets' = nGets + 1
              /\ nPresent' = nPresent + (IF Present(key, client_socket) THEN 1 ELSE 0)
       /\ UNCHANGED <<ring, clients, store, evicted>>

get(key) ==
    \/ EmptyRing("get", key, 0)
    \/ /\ ring # {}
       /\ query_count < MaxGets
       /\ \E client_socket \in {_get_server_for_key(key)} :
          LET response == send_receive(Msg("get", key, 0), client_socket)
          IN  /\ query_count' = query_count + 1
              /\ cache_hits' = cache_hits + (IF ~PyEq(response, PyFalse) THEN 1 ELSE 0)
              /\ last' = [Event("get", key, 0, client_socket, response)
                            EXCEPT !.rw = (last.op = "set" /\ last.key = key)]
              /\ nGets' = nGets + 1
              /\ nPresent' = nPresent + (IF Present(key, client_socket) THEN 1 ELSE 0)
       /\ UNCHANGED <<ring, clients, store, evicted>>

\* delete, counted as a query like the get its docstring describes.
delete_counts_query(key) ==
    \/ EmptyRing("del", key, 0)
    \/ /\ ring # {}
       /\ query_count < MaxGets
       /\ \E client_socket \in {_get_server_for_key(key)} :
          LET response == send_receive(Msg("del", key, 0), client_socket)
          IN  /\ store' = StoreAfter(Msg("del", key, 0), client_socket)
              /\ last' = Event("del", NoKey, 0, client_socket, response)
              /\ query_count' = query_count + 1
       /\ UNCHANGED <<ring, clients, cache_hits, evicted, nPresent, nGets>>

delete(key) ==
    \/ EmptyRing("del", key, 0)
    \/ /\ ring # {}
       /\ \E client_socket \in {_get_server_for_key(key)} :
          LET response == send_receive(Msg("del", key, 0), client_socket)
          IN  Routed("del", key, 0, client_socket, response)

\* The backend keeps the values it holds inside Ints.
InRange(key, diff) ==
    IF ring = {} THEN TRUE
    ELSE LET mem == store[_get_server_for_key(key)]
         IN  IF mem[key] = Absent THEN TRUE ELSE (mem[key].v + diff) \in Ints

add(key, diff) ==
    /\ InRange(key, diff)
    /\ \/ EmptyRing("add", key, diff)
       \/ /\ ring # {}
          /\ \E client_socket \in {_get_server_for_key(key)} :
             LET response == send_receive(Msg("add", key, diff), client_socket)
             IN  Routed("add", key, diff, client_socket, response)

increment(key) == add(key, 1)

decrement(key) == add(key, -1)

\* _delist_unavailable_server without the removal from the ring.
delist_keeps_ring(client_socket) ==
    /\ ring' = ring
    /\ evicted' = evicted \cup {client_socket}
    /\ last' = Event("delist", NoKey, 0, client_socket, PyTrue)
    /\ UNCHANGED <<clients, cache_hits, query_count, store, nPresent, nGets>>

_delist_unavailable_server(client_socket) ==
    /\ ring' = remove_node(ring, client_socket)
    /\ evicted' = evicted \cup {client_socket}
    /\ last' = Event("delist", NoKey, 0, client_socket, PyTrue)
    /\ UNCHANGED <<clients, cache_hits, query_count, store, nPresent, nGets>>

\* stats prints "Total queries: " and then evaluates the arguments of the hit
\* line: cache_hits / query_count raises ZeroDivisionError when query_count is
\* 0, and otherwise the replacement field {.2f} raises AttributeError in format.
\* No state of the router makes the call return.
stats ==
    /\ last' = Event("stats", NoKey, 0, NoSock, PyRaise)
    /\ UNCHANGED <<ring, clients, cache_hits, query_count, store, evicted,
                   nPresent, nGets>>

\* A backend process dies: its memory is gone and it answers nothing.
Crash(n) ==
    /\ alive[n]
    /\ alive' = [alive EXCEPT ![n] = FALSE]
    /\ store' = [store EXCEPT ![n] = [k \in Keys |-> Absent]]
    /\ UNCHANGED <<ring, clients, cache_hits, query_count, last, evicted,
                   nPresent, nGets>>

RouterInit ==
    /\ ring = {}
    /\ clients = [i \in {} |-> 0]
    /\ cache_hits = 0
    /\ query_count = 0
    /\ store = [n \in Sockets |-> [k \in Keys |-> Absent]]
    /\ alive = [n \in Sockets |-> TRUE]
    /\ last = Event("init", NoKey, 0, NoSock, PyTrue)
    /\ evicted = {}
    /\ nPresent = 0
    /\ nGets = 0

RouterNext ==
    \/ spawn /\ UNCHANGED <<alive, healthVars, concVars>>
    \/ \E k \in Keys, v \in Ints : set(k, v) /\ UNCHANGED <<alive, healthVars, concVars>>
    \/ \E k \in Keys : get(k) /\ UNCHANGED <<alive, healthVars, concVars>>
    \/ \E k \in Keys : delete(k) /\ UNCHANGED <<alive, healthVars, concVars>>
    \/ \E k \in Keys, d \in Diffs : add(k, d) /\ UNCHANGED <<alive, healthVars, concVars>>
    \/ \E k \in Keys : increment(k) /\ UNCHANGED <<alive, healthVars, concVars>>
    \/ \E k \in Keys : decrement(k) /\ UNCHANGED <<alive, healthVars, concVars>>
    \/ \E s \in DOMAIN clients :
          _delist_unavailable_server(clients[s]) /\ UNCHANGED <<alive, healthVars, concVars>>
    \/ stats /\ UNCHANGED <<alive, healthVars, concVars>>
    \/ \E n \in DOMAIN clients : Crash(clients[n]) /\ UNCHANGED <<healthVars, concVars>>

\* ---------------------------------------------------------- health server
ACK_MESSAGE == <<"A", "C", "K">>

\* What recv(ACK_HEADER) can return: at most ACK_HEADER bytes.
Replies == {<<>>, <<"A", "C">>, ACK_MESSAGE, <<"N", "A", "K">>}

\* What send returns: the number of bytes it took, or it raises.

Raised == -1
Sent == {Raised, 1, ACK_HEADER}

HEvent(op, sock, sent, recv, reply, ok) ==
    [op |-> op, sock |-> sock, sent |-> sent, recv |-> recv, reply |-> reply,
     ok |-> ok]

\* list.remove that leaves the list as it is.
Remove_nothing(seq, e) == seq

Remove(seq, e) ==
    LET at == CHOOSE i \in 1 .. Len(seq) : seq[i] = e /\ \A j \in 1 .. (i - 1) : seq[j] # e
    IN  SubSeq(seq, 1, at - 1) \o SubSeq(seq, at + 1, Len(seq))

Range(seq) == {seq[i] : i \in 1 .. Len(seq)}

\* monitor: accept a backend and start its probing task, which registers the
\* address before its first round.
monitor(n) ==
    /\ pc[n] = "idle"
    /\ pc' = [pc EXCEPT ![n] = "probing"]
    /\ health_clients' = Append(health_clients, n)
    /\ no_beat_count' = [no_beat_count EXCEPT ![n] = 0]
    /\ hlast' = HEvent("accept", n, 0, "none", <<>>, TRUE)
    /\ UNCHANGED <<unhealthy_clients, report>>

\* BeatCount without the reset on an acknowledgment.
BeatCount_no_reset(count, sent, recv, reply) ==
    IF sent = Raised THEN count + 1
    ELSE IF recv = "raise" THEN count + 1
    ELSE IF reply # <<>> THEN (IF reply = ACK_MESSAGE THEN count ELSE count + 1)
    ELSE count

\* The value of no_beat_count at the end of one round of the loop.
BeatCount(count, sent, recv, reply) ==
    IF sent = Raised THEN count + 1
    ELSE IF recv = "raise" THEN count + 1
    ELSE IF reply # <<>> THEN (IF reply = ACK_MESSAGE THEN 0 ELSE count + 1)
    ELSE count

\* Breaks with the threshold test only in the except branch, so that a miss
\* counted for a wrong reply is not tested.
Breaks_tests_in_except(count, sent, recv, reply) ==
    IF sent # Raised /\ sent # ACK_HEADER THEN TRUE
    ELSE IF sent = Raised \/ recv = "raise"
         THEN BeatCount(count, sent, recv, reply) = DEAD_THRESH
         ELSE FALSE

\* Whether the round leaves the loop.
Breaks(count, sent, recv, reply) ==
    IF sent # Raised /\ sent # ACK_HEADER THEN TRUE
    ELSE IF sent # Raised /\ recv = "data" /\ reply = ACK_MESSAGE THEN FALSE
    ELSE BeatCount(count, sent, recv, reply) = DEAD_THRESH

\* One round of probe_health for backend n: send returns `sent` (or raises),
\* recv returns `reply` (or raises); after the loop the address moves from
\* clients to unhealthy_clients.
probe_health(n, sent, recv, reply) ==
    /\ pc[n] = "probing"
    /\ (sent = ACK_HEADER) = (recv # "none")
    /\ recv = "data" \/ reply = <<>>
    /\ alive[n] \/ reply = <<>>
    /\ LET short == sent # Raised /\ sent # ACK_HEADER
           count == IF short THEN no_beat_count[n]
                    ELSE BeatCount(no_beat_count[n], sent, recv, reply)
       IN  /\ no_beat_count' = [no_beat_count EXCEPT ![n] = count]
           /\ IF Breaks(no_beat_count[n], sent, recv, reply)
              THEN /\ pc' = [pc EXCEPT ![n] = "dead"]
                   /\ health_clients' = Remove(health_clients, n)
                   /\ unhealthy_clients' = Append(unhealthy_clients, n)
              ELSE UNCHANGED <<pc, health_clients, unhealthy_clients>>
    /\ hlast' = HEvent("probe", n, sent, recv, reply, TRUE)
    /\ UNCHANGED report

\* report_health, first half: the message is serialized and sent.
report_send ==
    /\ report.at = "idle"
    /\ report' = [at |-> "sent", message |-> unhealthy_clients]
    /\ hlast' = HEvent("send", NoSock, 0, "none", <<>>, TRUE)
    /\ UNCHANGED <<health_clients, unhealthy_clients, pc, no_beat_count>>

\* report_health clearing the list whatever the acknowledgment.
report_health_always_clears(response) ==
    /\ report.at = "sent"
    /\ unhealthy_clients' = <<>>
    /\ report' = [at |-> "idle", message |-> <<>>]
    /\ hlast' = HEvent("report", NoSock, 0, "none", <<>>, response)
    /\ UNCHANGED <<health_clients, pc, no_beat_count>>

\* report_health, second half: the acknowledgment (False when none came) is
\* received and acted on.
report_health(response) ==
    /\ report.at = "sent"
    /\ unhealthy_clients' = IF response THEN <<>> ELSE unhealthy_clients
    /\ report' = [at |-> "idle", message |-> <<>>]
    /\ hlast' = HEvent("report", NoSock, 0, "none", <<>>, response)
    /\ UNCHANGED <<health_clients, pc, no_beat_count>>

\* summary prints the number of active clients.
summary ==
    /\ hlast' = HEvent("summary", NoSock, 0, "none", <<>>, TRUE)
    /\ UNCHANGED <<health_clients, unhealthy_clients, pc, no_beat_count, report>>

HealthInit ==
    /\ health_clients = <<>>
    /\ unhealthy_clients = <<>>
    /\ pc = [n \in Sockets |-> "idle"]
    /\ no_beat_count = [n \in Sockets |-> 0]
    /\ report = [at |-> "idle", message |-> <<>>]
    /\ hlast = [op |-> "init", sock |-> NoSock, sent |-> 0, recv |-> "none",
                reply |-> <<>>, ok |-> TRUE]

HealthNext ==
    \/ \E n \in Sockets : monitor(n) /\ UNCHANGED <<alive, routerVars, concVars>>
    \/ \E n \in Sockets, sent \in Sent, recv \in {"none", "raise", "data"},
          reply \in Replies :
          probe_health(n, sent, recv, reply) /\ UNCHANGED <<alive, routerVars, concVars>>
    \/ report_send /\ UNCHANGED <<alive, routerVars, concVars>>
    \/ \E response \in BOOLEAN : report_health(response) /\ UNCHANGED <<alive, routerVars, concVars>>
    \/ summary /\ UNCHANGED <<alive, routerVars, concVars>>
    \/ \E n \in Sockets : Crash(n) /\ UNCHANGED <<healthVars, concVars>>

\* ------------------------------------------------- concurrent routing calls
\* Threads of the embedding program that call the router at the same time.
\* send_receive takes no lock: utils.send_receive_ack sends the command and
\* then reads the next reply from the connection, and another thread can run
\* between the two.  A connection delivers the replies in the order in which
\* the backend got the commands.
Callers == {"t1", "t2"}
Ops == {"get", "set"}

Call(at, op, sock, from, resp, mixed) ==
    [at |-> at, op |-> op, sock |-> sock, from |-> from, resp |-> resp, mixed |-> mixed]
NoCall == Call("idle", "-", NoSock, "-", PyFalse, FALSE)

\* The open exchanges of other threads on this connection.
OpenOn(client_socket, c) ==
    {d \in Callers \ {c} : calls[d].at = "sent" /\ calls[d].sock = client_socket}

\* get or set up to the send inside send_receive: the lookup, and the command
\* written to the owner's connection (the backend answers it at once).
call_send(c, op, key, value) ==
    /\ calls[c].at # "sent"
    /\ op = "get" =>
          query_count + Cardinality({d \in Callers : calls[d].at = "sent"
                                                     /\ calls[d].op = "get"}) < MaxGets
    /\ IF ring = {}
       THEN /\ calls' = [calls EXCEPT ![c] = Call("done", op, NoSock, c, PyRaise, FALSE)]
            /\ UNCHANGED <<wire, store>>
       ELSE LET client_socket == _get_server_for_key(key)
                message == Msg(op, key, value)
                open == OpenOn(client_socket, c)
            IN  /\ wire' = [wire EXCEPT ![client_socket] =
                               Append(@, [from |-> c,
                                          resp |-> send_receive_ack(message, client_socket)])]
                /\ store' = StoreAfter(message, client_socket)
                /\ calls' = [d \in Callers |->
                               IF d = c
                               THEN Call("sent", op, client_socket, "-", PyFalse, open # {})
                               ELSE IF d \in open THEN [calls[d] EXCEPT !.mixed = TRUE]
                               ELSE calls[d]]
    /\ UNCHANGED <<ring, clients, cache_hits, query_count, last, evicted,
                   nPresent, nGets>>

\* The rest of the call: send_receive reads the next reply of the connection
\* and the method returns it (set as a bool; get after counting the query).
call_receive(c) ==
    /\ calls[c].at = "sent"
    /\ wire[calls[c].sock] # <<>>
    /\ LET client_socket == calls[c].sock
           reply == Head(wire[client_socket])
           response == reply.resp
           result == IF calls[c].op = "set"
                     THEN (IF PyTruthy(response) THEN PyTrue ELSE PyFalse)
                     ELSE response
       IN  /\ wire' = [wire EXCEPT ![client_socket] = Tail(@)]
           /\ calls' = [calls EXCEPT ![c] =
                          Call("done", calls[c].op, client_socket, reply.from, result,
                               calls[c].mixed \/ OpenOn(client_socket, c) # {})]
           /\ IF calls[c].op = "get"
              THEN /\ query_count' = query_count + 1
                   /\ cache_hits' = cache_hits + (IF ~PyEq(response, PyFalse) THEN 1 ELSE 0)
                   /\ nGets' = nGets + 1
                   /\ nPresent' = nPresent + (IF response.t = "int" THEN 1 ELSE 0)
              ELSE UNCHANGED <<cache_hits, query_count, nPresent, nGets>>
    /\ UNCHANGED <<ring, clients, store, last, evicted>>

ConcInit ==
    /\ calls = [c \in Callers |-> NoCall]
    /\ wire = [n \in Sockets |-> <<>>]

ConcNext ==
    \/ spawn /\ UNCHANGED <<alive, healthVars, concVars>>
    \/ \E c \in Callers, op \in Ops, k \in Keys, v \in Ints :
          call_send(c, op, k, IF op = "set" THEN v ELSE 0)
          /\ UNCHANGED <<alive, healthVars>>
    \/ \E c \in Callers : call_receive(c) /\ UNCHANGED <<alive, healthVars>>

Init == RouterInit /\ HealthInit /\ ConcInit

Next == RouterNext \/ HealthNext

Spec == Init /\ [][Next]_vars

RouterSpec == Init /\ [][RouterNext]_vars

HealthSpec == Init /\ [][HealthNext]_vars

ConcSpec == Init /\ [][ConcNext]_vars

\* The tasks that run for the lifetime of the health server, and the calls an
\* operator may make on the router.  Nothing in the program calls
\* _delist_unavailable_server, so no fairness is stated for it.
LiveNext ==
    \/ spawn /\ UNCHANGED <<alive, healthVars, concVars>>
    \/ \E s \in DOMAIN clients :
          _delist_unavailable_server(clients[s]) /\ UNCHANGED <<alive, healthVars, concVars>>
    \/ \E n \in Sockets : monitor(n) /\ UNCHANGED <<alive, routerVars, concVars>>
    \/ \E n \in Sockets, sent \in Sent, recv \in {"none", "raise", "data"},
          reply \in Replies :
          probe_health(n, sent, recv, reply) /\ UNCHANGED <<alive, routerVars, concVars>>
    \/ report_send /\ UNCHANGED <<alive, routerVars, concVars>>
    \/ \E response \in BOOLEAN : report_health(response) /\ UNCHANGED <<alive, routerVars, concVars>>
    \/ summary /\ UNCHANGED <<alive, routerVars, concVars>>

Monitoring == \E n \in Sockets : monitor(n) /\ UNCHANGED <<alive, routerVars, concVars>>
Probing(n) ==
    \E sent \in Sent, recv \in {"none", "raise", "data"}, reply \in Replies :
        probe_health(n, sent, recv, reply) /\ UNCHANGED <<alive, routerVars, concVars>>
Reporting ==
    \/ report_send /\ UNCHANGED <<alive, routerVars, concVars>>
    \/ \E response \in BOOLEAN : report_health(response) /\ UNCHANGED <<alive, routerVars, concVars>>

LiveSpec ==
    /\ Init
    /\ [][LiveNext]_vars
    /\ WF_vars(Monitoring)
    /\ \A n \in Sockets : WF_vars(Probing(n))
    /\ WF_vars(Reporting)
    /\ WF_vars(summary /\ UNCHANGED <<alive, routerVars, concVars>>)

\* ------------------------------------------------------------------ claims
RouterStep == alive' = alive /\ healthVars' = healthVars
HealthStep == alive' = alive /\ routerVars' = routerVars

\* C1: after any sequence of router operations, query_count equals the number
\* of get calls that completed and cache_hits the number of them that returned
\* a present value, whatever the value.
C1_StatsAccounting == query_count = nGets /\ cache_hits = nPresent

\* A probe round of backend n has just run / ended with the exact
\* acknowledgment.
ProbeRound(n) ==
    HealthStep /\ pc[n] = "probing" /\ hlast'.op = "probe" /\ hlast'.sock = n
Acked(e) == e.sent = ACK_HEADER /\ e.recv = "data" /\ e.reply = ACK_MESSAGE

\* The rounds C2 lists: a send error, a receive error or timeout, or a reply
\* of 0 to ACK_HEADER bytes that differs from the acknowledgment.
NotAcknowledged(e) ==
    \/ e.sent = Raised
    \/ e.sent = ACK_HEADER /\ (e.recv = "raise" \/ e.reply # ACK_MESSAGE)

\* C2: every probe round that does not end with the exact acknowledgment
\* payload increases the consecutive-miss counter by exactly one.
C2_MissCounted ==
    [][\A n \in Sockets :
          (ProbeRound(n) /\ NotAcknowledged(hlast')) =>
              no_beat_count'[n] = no_beat_count[n] + 1]_vars

\* C3: a probing session has left the Probing state, and its node is in the
\* unhealthy list, only with the consecutive-miss counter at DEAD_THRESH.
C3_NoPrematureDeath ==
    \A n \in Sockets :
        (pc[n] = "dead" \/ n \in Range(unhealthy_clients)) =>
            no_beat_count[n] = DEAD_THRESH

\* C4: a probe round that receives the exact acknowledgment sets the
\* consecutive-miss counter to 0 and keeps the session Probing and its node in
\* the active list; and no round adds more than one miss, so that dying of
\* misses after an acknowledgment takes DEAD_THRESH further rounds.
C4_ResetOnAck ==
    [][\A n \in Sockets :
          ProbeRound(n) =>
              /\ no_beat_count'[n] <= no_beat_count[n] + 1
              /\ Acked(hlast') =>
                    /\ no_beat_count'[n] = 0
                    /\ pc'[n] = "probing"
                    /\ n \in Range(health_clients')
                    /\ n \notin Range(unhealthy_clients')]_vars

C4_Witness ==
    /\ hlast.op = "probe"
    /\ Acked(hlast)
    /\ pc[hlast.sock] = "probing"
    /\ no_beat_count[hlast.sock] = 0
    /\ \E m \in Sockets : pc[m] = "dead" /\ no_beat_count[m] = DEAD_THRESH

\* A get of key k that directly follows a routed set of k.
SetThenGet ==
    /\ last.op = "set" /\ last.sock # NoSock
    /\ last'.op = "get" /\ last'.key = last.key
    /\ nGets' = nGets + 1
    /\ RouterStep

RoutingStep ==
    last'.op \in {"get", "set", "del", "add"} /\ last'.sock # NoSock /\ RouterStep

\* A get of a key that the evicted backend b would own were it still in the ring.
GetOfKeyOwnedBy(b) ==
    /\ last'.op = "get" /\ last'.sock # NoSock
    /\ nGets' = nGets + 1
    /\ b \in evicted
    /\ RouterStep
    /\ get_node(add_node(ring, b, num_virtual_replicas), last'.key) = b

\* C6 as stated: after the eviction of b no call sends on b's connection, and
\* a get of a key that b owned goes to another node and returns the miss
\* indication.
C6_EvictedGetMisses ==
    [][/\ RoutingStep => last'.sock \notin evicted
       /\ \A b \in Sockets :
             GetOfKeyOwnedBy(b) => last'.sock # b /\ PyEq(last'.resp, PyFalse)]_vars

\* C6 as amended: after the eviction of b no call sends on b's connection, and
\* a get of a key that b owned goes to another node and returns what that node
\* holds for the key: the miss indication when it holds nothing for it.
C6_NoRouteToEvicted ==
    [][/\ RoutingStep => last'.sock \notin evicted
       /\ \A b \in Sockets :
             GetOfKeyOwnedBy(b) =>
                /\ last'.sock # b
                /\ last'.resp = IF Present(last'.key, last'.sock)
                                THEN store[last'.sock][last'.key] ELSE PyFalse]_vars

C6_Witness ==
    /\ last.op = "get" /\ last.sock # NoSock
    /\ last.resp = PyFalse
    /\ \E b \in evicted :
          /\ b # last.sock
          /\ get_node(add_node(ring, b, num_virtual_replicas), last.key) = b

\* C7: a node the router evicted is in neither the ring nor the registry, and
\* every node of the registry is in the ring.
C7_EvictedEverywhere ==
    /\ \A s \in evicted :
          s \notin RingNodes(ring) /\ s \notin {clients[i] : i \in DOMAIN clients}
    /\ \A i \in DOMAIN clients : clients[i] \in RingNodes(ring)

\* C8: every node the heartbeat monitor declares dead is eventually removed
\* from the router's ring.
C8_DeadNodeFeedback ==
    \A n \in Sockets :
        (pc[n] = "dead" /\ n \in RingNodes(ring)) ~> (n \notin RingNodes(ring))

\* C9: an entry leaves the unhealthy list only as part of a report that was
\* positively acknowledged.
C9_NoReportLost ==
    [][\A e \in Range(unhealthy_clients) \ Range(unhealthy_clients') :
          report.at = "sent" /\ e \in Range(report.message)]_vars

\* C10: report_health clears the unhealthy list when the acknowledgment is
\* positive and leaves it unchanged when it is negative or missing.
C10_ReportOutcome ==
    [][(HealthStep /\ report.at = "sent" /\ report'.at = "idle") =>
          unhealthy_clients' = IF hlast'.ok THEN <<>> ELSE unhealthy_clients]_vars

C10_Witness ==
    /\ hlast.op = "report" /\ hlast.ok
    /\ unhealthy_clients = <<>>
    /\ \E n \in Sockets : pc[n] = "dead"

\* The owner of the key of the call recorded in e (delete and add do not record
\* their key: then the owner of some key).
SentToOwner(e, r) ==
    IF e.key # NoKey THEN e.sock = get_node(r, e.key)
    ELSE \E k \in Keys : e.sock = get_node(r, k)

\* C12: every get, set, delete and add makes one exchange, with the node that
\* owns the key, touches no other backend, and leaves the ring and the
\* registry unchanged, also when the exchange fails; ring membership changes
\* only in spawn and _delist_unavailable_server.
C12_OneAttemptNoEviction ==
    [][RouterStep =>
          /\ RoutingStep =>
                /\ ring' = ring /\ clients' = clients
                /\ SentToOwner(last', ring)
                /\ \A n \in Sockets \ {last'.sock} : store'[n] = store[n]
          /\ RingNodes(ring') # RingNodes(ring) => last'.op \in {"spawn", "delist"}]_vars

C12_Witness ==
    /\ last.op \in {"get", "set", "del", "add"}
    /\ last.sock \in RingNodes(ring)
    /\ ~alive[last.sock]
    /\ last.resp = PyFalse
    /\ Cardinality(RingNodes(ring)) = 2

\* C13: stats completes without error in every reachable state, also when
\* query_count is 0, and changes neither query_count nor cache_hits.
C13_StatsGuarded ==
    [][(RouterStep /\ last'.op = "stats") =>
          /\ last'.resp # PyRaise
          /\ query_count' = query_count /\ cache_hits' = cache_hits]_vars

\* A call of spawn has just registered a backend.
SpawnStep == RouterStep /\ last'.op = "spawn" /\ clients' # clients

\* C14: the k-th registered backend gets id k-1 (backends are named by their
\* order of arrival), an id no earlier backend holds, whatever was evicted
\* before; the registry stores the backend under that id and keeps its other
\* entries, and the ring gains num_virtual_replicas positions of the backend.
C14_Registration ==
    [][SpawnStep =>
          LET client_id == last'.arg
              client_socket == last'.sock
          IN  /\ client_id = client_socket
              /\ client_id \notin DOMAIN clients
              /\ DOMAIN clients' = DOMAIN clients \cup {client_id}
              /\ clients'[client_id] = client_socket
              /\ \A i \in DOMAIN clients : clients'[i] = clients[i]
              /\ \A i, j \in DOMAIN clients' : clients'[i] = clients'[j] => i = j
              /\ Cardinality(ring' \ ring) = num_virtual_replicas
              /\ \A p \in ring' \ ring : p[2] = client_socket]_vars

C14_Witness ==
    /\ last.op = "spawn" /\ last.arg = 1
    /\ evicted = {0}
    /\ DOMAIN clients = {0, 1} /\ clients[1] = 1
    /\ RingNodes(ring) = {1}

\* C15: with no node in the ring, a get, set, delete or add ends with the
\* empty-ring error, sends nothing to any backend, and leaves query_count and
\* cache_hits unchanged.
C15_EmptyRingFails ==
    [][(ring = {} /\ last'.op \in {"get", "set", "del", "add"} /\ RouterStep) =>
          /\ last'.resp = PyRaise
          /\ last'.sock = NoSock
          /\ store' = store
          /\ query_count' = query_count /\ cache_hits' = cache_hits]_vars

C15_Witness ==
    /\ last.op = "get" /\ last.resp = PyRaise
    /\ ring = {}
    /\ len(clients) = 2 /\ evicted = {0, 1}

\* C16: no router step decreases query_count or cache_hits, and cache_hits
\* never exceeds query_count; set, delete, add (so increment and decrement),
\* spawn and _delist_unavailable_server leave both unchanged; a get that
\* returns adds exactly 1 to query_count and 0 or 1 to cache_hits.
C16_CountersOnlyOnGet ==
    [][RouterStep =>
          /\ query_count' >= query_count /\ cache_hits' >= cache_hits
          /\ cache_hits' <= query_count'
          /\ last'.op \in {"set", "del", "add", "spawn", "delist"} =>
                query_count' = query_count /\ cache_hits' = cache_hits
          /\ (last'.op = "get" /\ last'.resp # PyRaise) =>
                /\ query_count' = query_count + 1
                /\ cache_hits' - cache_hits \in {0, 1}]_vars

C16_Witness ==
    /\ last.op \in {"set", "del", "add", "delist"}
    /\ query_count = 1 /\ cache_hits = 1

\* C19: one call of spawn accepts one connection: it adds one entry to the
\* registry and one node to the ring, the same backend, and returns; the
\* registry changes in no other step, so a backend that connects later is
\* registered by a later call of spawn.
C19_SingleAccept ==
    [][RouterStep =>
          /\ SpawnStep =>
                /\ len(clients') = len(clients) + 1
                /\ RingNodes(ring') \ RingNodes(ring) = {last'.sock}
                /\ {clients'[i] : i \in DOMAIN clients' \ DOMAIN clients} = {last'.sock}
          /\ clients' # clients => last'.op = "spawn"]_vars

C19_Witness ==
    /\ last.op = "spawn"
    /\ len(clients) = 1
    /\ RingNodes(ring) = {0}
    /\ len(clients) < MaxNodes

Count(seq, e) == Cardinality({i \in 1 .. Len(seq) : seq[i] = e})

\* C17: the step that ends a probing session takes its address out of the
\* active list and appends it once to the unhealthy list; after it the task
\* stays ended: no probe round of that session runs, its counter is frozen
\* and its address is appended to neither list again; and no address is ever
\* in both lists.
C17_DeadIsTerminal ==
    [][HealthStep =>
          \A n \in Sockets :
             /\ (pc[n] = "probing" /\ pc'[n] = "dead") =>
                   /\ Count(health_clients', n) = Count(health_clients, n) - 1
                   /\ n \notin Range(health_clients')
                   /\ unhealthy_clients' = Append(unhealthy_clients, n)
                   /\ Count(unhealthy_clients', n) = 1
             /\ pc[n] = "dead" =>
                   /\ pc'[n] = "dead"
                   /\ ~(hlast'.op = "probe" /\ hlast'.sock = n)
                   /\ no_beat_count'[n] = no_beat_count[n]
                   /\ Count(unhealthy_clients', n) <= Count(unhealthy_clients, n)
                   /\ n \notin Range(health_clients')
             /\ ~(n \in Range(health_clients') /\ n \in Range(unhealthy_clients'))]_vars

C17_Witness ==
    \E n, m \in Sockets :
        /\ pc[n] = "dead" /\ n \in Range(unhealthy_clients)
        /\ n \notin Range(health_clients)
        /\ hlast.op = "probe" /\ hlast.sock = m /\ m # n
        /\ pc[m] = "probing" /\ m \in Range(health_clients)

\* C20: the consecutive-miss counter of every probing session stays between 0
\* and DEAD_THRESH, and is below DEAD_THRESH while the session still probes:
\* a session whose counter reaches the threshold ends in that same round.
C20_CounterBounded ==
    \A n \in Sockets :
        /\ 0 <= no_beat_count[n] /\ no_beat_count[n] <= DEAD_THRESH
        /\ pc[n] = "probing" => no_beat_count[n] < DEAD_THRESH

C20_Witness ==
    \E n, m \in Sockets :
        /\ pc[n] = "probing" /\ no_beat_count[n] = DEAD_THRESH - 1
        /\ pc[m] = "dead" /\ no_beat_count[m] = DEAD_THRESH
        /\ hlast.op = "probe" /\ hlast.sock = m /\ hlast.reply = <<"N", "A", "K">>

\* The most recent health-server step is a round of n's session that received
\* the exact acknowledgment.
AckedBy(n) == hlast.op = "probe" /\ hlast.sock = n /\ Acked(hlast)

\* C18: a probing session whose node never again returns the exact
\* acknowledgment (silence, a closed connection, other bytes or no bytes)
\* eventually ends, with its node in the unhealthy list: so a session that
\* probes is always followed by an acknowledged round or by its end.
C18_FailureDetected ==
    \A n \in Sockets :
        (pc[n] = "probing") ~> (pc[n] = "dead" \/ AckedBy(n))

\* C11: two routing calls that run at the same time on keys of one node do
\* not interleave their exchanges on its connection, and each returns the
\* reply to its own command: a call that returned with a reply got the reply
\* to the command it sent, and no other exchange was open on the connection
\* between its send and its receive.
C11_PerNodeSerialization ==
    \A c \in Callers :
        (calls[c].at = "done" /\ calls[c].sock # NoSock) =>
            calls[c].from = c /\ ~calls[c].mixed

====
